---- MODULE Spec2Model ----
(***************************************************************************)
(* Model of vietnam_stock_analysis: the date-range resolver of             *)
(* stock_reader.py, StockAnalyzer / AssetGroupAnalyzer of                  *)
(* stock_analyzer.py and the MA / EMA / MACD indicators of                 *)
(* technical_indicators.py.                                                *)
(*                                                                         *)
(* Floating point values are modelled as exact rationals with a NaN        *)
(* element; a standard deviation is represented by its variance.           *)
(***************************************************************************)
EXTENDS Integers, Sequences, FiniteSets, TLC

VARIABLES
    data,      \* the price table handed to the analyzers (rows of one or more symbols)
    ret,       \* the outcome of the last completed call ("none" when idle)
    job,       \* AssetGroupAnalyzer.analyze in progress: function name, kwargs, groups done
    pending,   \* groups whose analyzer has not been evaluated yet
    acc        \* the mapping group -> result built so far by analyze

vars == <<data, ret, job, pending, acc>>

(***************************************************************************)
(* Bounds of the model.                                                    *)
(***************************************************************************)
MaxRows == 4
MaxDaysFromNow == 2
MaxMovingDays == 2
MaxExp == 1
MaxLevel == 4
MaxPeriods == 3

(***************************************************************************)
(* Python optional values and truthiness.                                  *)
(***************************************************************************)
NoneInt == [given |-> FALSE, v |-> 0]
SomeInt(n) == [given |-> TRUE, v |-> n]
NoneStr == [given |-> FALSE, v |-> ""]
SomeStr(s) == [given |-> TRUE, v |-> s]

\* bool(x) of an optional int: None and 0 are false
TruthyInt(o) == o.given /\ o.v # 0
\* bool(x) of an optional str: None and "" are false
TruthyStr(o) == o.given /\ o.v # ""

(***************************************************************************)
(* Calendar arithmetic of datetime / timedelta and strftime("%d/%m/%Y").   *)
(***************************************************************************)
IsLeap(y) == (y % 4 = 0) /\ ((y % 100 # 0) \/ (y % 400 = 0))

DaysInMonth(y, m) ==
    IF m = 2 THEN (IF IsLeap(y) THEN 29 ELSE 28)
    ELSE IF m \in {4, 6, 9, 11} THEN 30 ELSE 31

DaysBeforeYear(y) ==
    (y - 1) * 365 + ((y - 1) \div 4) - ((y - 1) \div 100) + ((y - 1) \div 400)

RECURSIVE DaysBeforeMonth(_, _)
DaysBeforeMonth(y, m) ==
    IF m = 1 THEN 0 ELSE DaysBeforeMonth(y, m - 1) + DaysInMonth(y, m - 1)

ToOrdinal(date) ==
    DaysBeforeYear(date.year) + DaysBeforeMonth(date.year, date.month) + date.day

FromOrdinal(n, nearYear) ==
    LET y == CHOOSE yy \in (nearYear - 1)..(nearYear + 1) :
                 DaysBeforeYear(yy) < n /\ n <= DaysBeforeYear(yy + 1)
        r == n - DaysBeforeYear(y)
        m == CHOOSE mm \in 1..12 :
                 DaysBeforeMonth(y, mm) < r /\ r <= DaysBeforeMonth(y, mm) + DaysInMonth(y, mm)
    IN [year |-> y, month |-> m, day |-> r - DaysBeforeMonth(y, m)]

\* now - timedelta(days=k)
MinusDays(date, k) == FromOrdinal(ToOrdinal(date) - k, date.year)

Pad2(n) == IF n < 10 THEN "0" \o ToString(n) ELSE ToString(n)

\* date.strftime("%d/%m/%Y")
strftime(date) == Pad2(date.day) \o "/" \o Pad2(date.month) \o "/" \o ToString(date.year)

(***************************************************************************)
(* stock_reader._get_date_string                                           *)
(***************************************************************************)
DefaultDaysFromNow == 30

Returned(f, t) == [err |-> "", from_date |-> f, to_date |-> t]
Raised(e) == [err |-> e, from_date |-> NoneStr, to_date |-> NoneStr]

\* variant: the check for an upper bound without a lower bound is missing
get_date_string_NoRangeCheck(days_from_now, from_date, to_date, now) ==
    LET days == IF ~(TruthyInt(days_from_now) \/ TruthyStr(from_date) \/ TruthyStr(to_date))
                THEN SomeInt(DefaultDaysFromNow)
                ELSE days_from_now
    IN IF TruthyInt(days)
       THEN Returned(SomeStr(strftime(MinusDays(now, days.v))), SomeStr(strftime(now)))
       ELSE IF TruthyStr(from_date) /\ ~TruthyStr(to_date)
       THEN Returned(from_date, SomeStr(strftime(now)))
       ELSE Returned(from_date, to_date)

\* variant: to_date is set to now whenever from_date is given
get_date_string_ForceToday(days_from_now, from_date, to_date, now) ==
    LET days == IF ~(TruthyInt(days_from_now) \/ TruthyStr(from_date) \/ TruthyStr(to_date))
                THEN SomeInt(DefaultDaysFromNow)
                ELSE days_from_now
    IN IF TruthyInt(days)
       THEN Returned(SomeStr(strftime(MinusDays(now, days.v))), SomeStr(strftime(now)))
       ELSE IF ~TruthyStr(from_date) /\ TruthyStr(to_date)
       THEN Raised("ValueError")
       ELSE Returned(from_date, SomeStr(strftime(now)))

get_date_string(days_from_now, from_date, to_date, now) ==
    LET days == IF ~(TruthyInt(days_from_now) \/ TruthyStr(from_date) \/ TruthyStr(to_date))
                THEN SomeInt(DefaultDaysFromNow)
                ELSE days_from_now
    IN IF TruthyInt(days)
       THEN Returned(SomeStr(strftime(MinusDays(now, days.v))), SomeStr(strftime(now)))
       ELSE IF ~TruthyStr(from_date) /\ TruthyStr(to_date)
       THEN Raised("ValueError")
       ELSE IF TruthyStr(from_date) /\ ~TruthyStr(to_date)
       THEN Returned(from_date, SomeStr(strftime(now)))
       ELSE Returned(from_date, to_date)

(***************************************************************************)
(* Floating point numbers as exact rationals, with NaN.                    *)
(***************************************************************************)
Abs(n) == IF n < 0 THEN -n ELSE n
Min(a, b) == IF a <= b THEN a ELSE b
Max(a, b) == IF a >= b THEN a ELSE b

RECURSIVE GCD(_, _)
GCD(a, b) == IF b = 0 THEN a ELSE GCD(b, a % b)

NaN == [nan |-> TRUE, num |-> 0, den |-> 1]

\* n / d in lowest terms, d # 0
Norm(n, d) ==
    LET g == GCD(Abs(n), Abs(d))
        sgn == IF d < 0 THEN -1 ELSE 1
    IN [nan |-> FALSE, num |-> sgn * (n \div g), den |-> sgn * (d \div g)]

R(n) == [nan |-> FALSE, num |-> n, den |-> 1]

\* a + b over the least common denominator
RAdd(a, b) ==
    IF a.nan \/ b.nan THEN NaN
    ELSE LET g == GCD(a.den, b.den)
         IN Norm(a.num * (b.den \div g) + b.num * (a.den \div g), a.den * (b.den \div g))

RNeg(a) == IF a.nan THEN NaN ELSE [nan |-> FALSE, num |-> -a.num, den |-> a.den]

RSub(a, b) == RAdd(a, RNeg(b))

\* a * b, cancelling across the factors before multiplying
RMul(a, b) ==
    IF a.nan \/ b.nan THEN NaN
    ELSE LET g1 == GCD(Abs(a.num), b.den)
             g2 == GCD(Abs(b.num), a.den)
         IN Norm((a.num \div g1) * (b.num \div g2), (a.den \div g2) * (b.den \div g1))

\* a / b; a zero divisor does not occur for positive prices
RDiv(a, b) ==
    IF a.nan \/ b.nan \/ b.num = 0 THEN NaN
    ELSE RMul(a, Norm(b.den, b.num))

(***************************************************************************)
(* pandas Series as sequences of numbers (the index is the position).      *)
(***************************************************************************)
\* the observations of a series that are not NaN, in order
NotNa(s) == SelectSeq(s, LAMBDA x : ~x.nan)

RECURSIVE SumSeq(_)
SumSeq(s) == IF s = << >> THEN R(0) ELSE RAdd(s[1], SumSeq(Tail(s)))

RECURSIVE ProdSeq(_)
ProdSeq(s) == IF s = << >> THEN R(1) ELSE RMul(s[1], ProdSeq(Tail(s)))

\* Series.mean(): NaN skipped, NaN when nothing is left
Mean(s) ==
    LET obs == NotNa(s)
    IN IF obs = << >> THEN NaN ELSE RDiv(SumSeq(obs), R(Len(obs)))

\* Series.std(): sample standard deviation (ddof = 1) of the non-NaN
\* observations, represented by its square; NaN with fewer than 2 observations
Std(s) ==
    LET obs == NotNa(s)
        k == Len(obs)
        mu == Mean(obs)
        sq == [i \in 1..k |-> RMul(RSub(obs[i], mu), RSub(obs[i], mu))]
    IN [sqrt_of |-> IF k < 2 THEN NaN ELSE RDiv(SumSeq(sq), R(k - 1))]

\* s[start:] for a Python slice start (negative counts from the end)
PySliceFrom(s, start) ==
    LET n == Len(s)
        b == IF start < 0 THEN Max(n + start, 0) ELSE Min(start, n)
    IN SubSeq(s, b + 1, n)

\* Series.pct_change()
pct_change(s) ==
    [i \in 1..Len(s) |-> IF i = 1 THEN NaN ELSE RSub(RDiv(s[i], s[i - 1]), R(1))]

\* np.add(s, c)
np_add(s, c) == [i \in 1..Len(s) |-> RAdd(s[i], c)]

\* Series.cumprod(): NaN entries are skipped and stay NaN
cumprod(s) ==
    [i \in 1..Len(s) |-> IF s[i].nan THEN NaN ELSE ProdSeq(NotNa(SubSeq(s, 1, i)))]

\* Series.rolling(window).mean(): min_periods = window
rolling_mean(s, window) ==
    [i \in 1..Len(s) |->
        IF i < window \/ \E j \in (i - window + 1)..i : s[j].nan
        THEN NaN
        ELSE RDiv(SumSeq(SubSeq(s, i - window + 1, i)), R(window))]

\* Series.ewm(span, min_periods, adjust=False).mean() of a series whose NaN
\* entries, if any, are all leading
RECURSIVE ewm_at(_, _, _)
ewm_at(s, span, i) ==
    LET alpha == RDiv(R(2), R(span + 1))
    IN IF s[i].nan THEN NaN
       ELSE IF i = 1 \/ s[i - 1].nan THEN s[i]
       ELSE RAdd(RMul(RSub(R(1), alpha), ewm_at(s, span, i - 1)), RMul(alpha, s[i]))

ewm_mean(s, span, min_periods) ==
    [i \in 1..Len(s) |->
        IF Len(NotNa(SubSeq(s, 1, i))) < Max(min_periods, 1) THEN NaN ELSE ewm_at(s, span, i)]

(***************************************************************************)
(* stock_analyzer.StockAnalyzer over a table df (a sequence of rows).      *)
(***************************************************************************)
Ok(v) == [err |-> "", val |-> v]
Fail(e) == [err |-> e, val |-> NaN]

max_periods(df) == Len(df)

close(df) == [i \in 1..Len(df) |-> R(df[i].Close)]

close_pct_change(df) == pct_change(close(df))

\* DataFrame.last("1D"): the rows later than one day before the last index
last_1D(df) ==
    IF Len(df) = 0 THEN df
    ELSE LET start_date == df[Len(df)].Date - 1
             start == Cardinality({i \in 1..Len(df) : df[i].Date <= start_date})
         IN SubSeq(df, start + 1, Len(df))

last_close(df) == R(last_1D(df)[1].Close)
last_high(df) == R(last_1D(df)[1].High)
last_low(df) == R(last_1D(df)[1].Low)

pivot_point(df) == RDiv(RAdd(RAdd(last_close(df), last_high(df)), last_low(df)), R(3))

\* variant: the percent changes are multiplied without adding 1
cummulative_returns_NoBase(df) == cumprod(close_pct_change(df))

cummulative_returns(df) == cumprod(np_add(close_pct_change(df), R(1)))

resistance(df, level) ==
    IF level = 1 THEN Ok(RSub(RMul(R(2), pivot_point(df)), last_low(df)))
    ELSE IF level = 2 THEN Ok(RAdd(pivot_point(df), RSub(last_high(df), last_low(df))))
    ELSE IF level = 3
    THEN Ok(RAdd(last_high(df), RMul(R(2), RSub(pivot_point(df), last_low(df)))))
    ELSE Fail("ValueError")

\* variant: the branch for level 3 is missing
support_TwoLevels(df, level) ==
    IF level = 1 THEN Ok(RSub(RMul(R(2), pivot_point(df)), last_high(df)))
    ELSE IF level = 2 THEN Ok(RSub(pivot_point(df), RSub(last_high(df), last_low(df))))
    ELSE Fail("ValueError")

support(df, level) ==
    IF level = 1 THEN Ok(RSub(RMul(R(2), pivot_point(df)), last_high(df)))
    ELSE IF level = 2 THEN Ok(RSub(pivot_point(df), RSub(last_high(df), last_low(df))))
    ELSE IF level = 3
    THEN Ok(RSub(last_low(df), RMul(R(2), RSub(last_high(df), pivot_point(df)))))
    ELSE Fail("ValueError")

\* the slice of close_pct_change that daily_std hands to std()
daily_std_window(df, periods) ==
    PySliceFrom(close_pct_change(df), Min(periods, max_periods(df)) * (-1))

daily_std(df, periods) == Std(daily_std_window(df, periods))

DefaultLevel == 1
DefaultPeriods == 252

(***************************************************************************)
(* stock_analyzer.AssetGroupAnalyzer                                       *)
(***************************************************************************)
\* the symbols of the model, in the order groupby sorts its keys
SymbolOrder == <<"AAA", "BBB">>
Symbols == { SymbolOrder[i] : i \in 1..Len(SymbolOrder) }

\* df.groupby("name"): the distinct names of the table
GroupKeys(df) == { df[i].name : i \in 1..Len(df) }

\* the rows of one group, in table order
ticker_df(df, group) == SelectSeq(df, LAMBDA row : row.name = group)

\* group -> the table its StockAnalyzer holds
composition_handler(df) == [group \in GroupKeys(df) |-> ticker_df(df, group)]

\* what getattr(StockAnalyzer, name) is
Properties == {"_max_periods", "close", "close_pct_change", "last_close", "last_high",
               "last_low", "pivot_point"}
StaticMethods == {"port_return"}
Methods == {"cummulative_returns", "resistance", "support", "daily_std"}

hasattr(func_name) == func_name \in Properties \cup StaticMethods \cup Methods

\* keyword arguments of analyze: each of the two names is passed or not
NoKwargs == [level |-> NoneInt, periods |-> NoneInt]

\* the keyword names a method accepts besides self
Accepts(func_name) ==
    IF func_name \in {"resistance", "support"} THEN {"level"}
    ELSE IF func_name = "daily_std" THEN {"periods"}
    ELSE {}

Passed(kwargs) ==
    (IF kwargs.level.given THEN {"level"} ELSE {}) \cup
    (IF kwargs.periods.given THEN {"periods"} ELSE {})

\* getattr(StockAnalyzer, func_name)(analyzer, **kwargs) for a name that exists
Invoke(func_name, df, kwargs) ==
    IF func_name \in Properties
    THEN Fail("TypeError")      \* a property object is not callable
    ELSE IF func_name \in StaticMethods
    THEN Fail("TypeError")      \* port_return(analyzer): an analyzer is not subscriptable
    ELSE IF ~(Passed(kwargs) \subseteq Accepts(func_name))
    THEN Fail("TypeError")      \* unexpected keyword argument
    ELSE IF func_name = "resistance"
    THEN resistance(df, IF kwargs.level.given THEN kwargs.level.v ELSE DefaultLevel)
    ELSE IF func_name = "support"
    THEN support(df, IF kwargs.level.given THEN kwargs.level.v ELSE DefaultLevel)
    ELSE IF func_name = "daily_std"
    THEN Ok(daily_std(df, IF kwargs.periods.given THEN kwargs.periods.v ELSE DefaultPeriods))
    ELSE Ok(cummulative_returns(df))

\* variant: every item shares the value computed last
Put_Shared(mapping, group, val) == [g \in DOMAIN mapping \cup {group} |-> val]

\* the dict comprehension's insertion of one item
Put(mapping, group, val) ==
    [g \in DOMAIN mapping \cup {group} |-> IF g = group THEN val ELSE mapping[g]]

EmptyMap == [g \in {} |-> NaN]

\* analyze as the code runs it: the analyzers in groupby order, the first
\* failure ending the call
RECURSIVE analyze_from(_, _, _, _, _)
analyze_from(analyzers, func_name, kwargs, i, mapping) ==
    IF i > Len(SymbolOrder) THEN [err |-> "", out |-> mapping]
    ELSE IF SymbolOrder[i] \notin DOMAIN analyzers
    THEN analyze_from(analyzers, func_name, kwargs, i + 1, mapping)
    ELSE LET r == Invoke(func_name, analyzers[SymbolOrder[i]], kwargs)
         IN IF r.err # "" THEN [err |-> r.err, out |-> EmptyMap]
            ELSE analyze_from(analyzers, func_name, kwargs, i + 1,
                              Put(mapping, SymbolOrder[i], r.val))

analyze(df, func_name, kwargs) ==
    IF ~hasattr(func_name) THEN [err |-> "ValueError", out |-> EmptyMap]
    ELSE analyze_from(composition_handler(df), func_name, kwargs, 1, EmptyMap)

(***************************************************************************)
(* technical_indicators: MA, EMA, MACD over the records of one symbol.     *)
(***************************************************************************)
NoSeries == << >>
OkSeries(s) == [err |-> "", val |-> s]
FailSeries(e) == [err |-> e, val |-> NoSeries]

\* variant: one window of rows is enough
MA_result_OneWindow(df, moving_days) ==
    IF Len(df) < moving_days THEN FailSeries("ValueError")
    ELSE OkSeries(rolling_mean(close(df), moving_days))

MA_result(df, moving_days) ==
    IF Len(df) < 2 * moving_days THEN FailSeries("ValueError")
    ELSE OkSeries(rolling_mean(close(df), moving_days))

\* variant: exactly two windows of rows are rejected as well
EMA_result_OffByOne(df, moving_days) ==
    IF Len(df) <= 2 * moving_days THEN FailSeries("ValueError")
    ELSE OkSeries(ewm_mean(close(df), moving_days, moving_days))

EMA_result(df, moving_days) ==
    IF Len(df) < 2 * moving_days THEN FailSeries("ValueError")
    ELSE OkSeries(ewm_mean(close(df), moving_days, moving_days))

MACD_result(df, low, high, exp) ==
    LET a == EMA_result(df, low)
        b == EMA_result(df, high)
        macd == [i \in 1..Len(df) |-> RSub(a.val[i], b.val[i])]
    IN IF a.err # "" THEN a
       ELSE IF b.err # "" THEN b
       ELSE IF exp = 0 THEN OkSeries(macd)
       ELSE OkSeries(ewm_mean(macd, exp, 0))

(***************************************************************************)
(* The price tables of the model.                                          *)
(***************************************************************************)
Bars == { [Close |-> 100, High |-> 120, Low |-> 80],
          [Close |-> 110, High |-> 115, Low |-> 90] }

\* rows of the given names and bars; the k-th row of a symbol is dated day k,
\* so every symbol's partition is strictly increasing in Date
MkTable(s) ==
    [i \in 1..Len(s) |->
        [name |-> s[i][1], Close |-> s[i][2].Close, High |-> s[i][2].High,
         Low |-> s[i][2].Low,
         Date |-> Cardinality({j \in 1..i : s[j][1] = s[i][1]})]]

Tables == { MkTable(s) : s \in UNION { [1..n -> Symbols \X Bars] : n \in 1..MaxRows } }

\* Inputs of the resolver
Todays == { [year |-> 2020, month |-> 3, day |-> 1],
            [year |-> 2021, month |-> 1, day |-> 1],
            [year |-> 2020, month |-> 9, day |-> 15] }
DaysInputs == {NoneInt} \cup { SomeInt(d) : d \in 0..MaxDaysFromNow } \cup {SomeInt(6)}
DateInputs == {NoneStr, SomeStr("1/9/2020"), SomeStr("01/03/2020")}

Idle == [op |-> "none"]

InitReader ==
    /\ data = << >>
    /\ ret = Idle
    /\ job = [active |-> FALSE]
    /\ pending = {}
    /\ acc = EmptyMap

\* a client calls _get_date_string(days_from_now, from_date, to_date) at time now
Resolve ==
    /\ ret.op = "none"
    /\ \E d \in DaysInputs, f \in DateInputs, t \in DateInputs, now \in Todays :
         ret' = [op |-> "_get_date_string", days_from_now |-> d, from_date |-> f,
                 to_date |-> t, now |-> now, out |-> get_date_string(d, f, t, now)]
    /\ UNCHANGED <<data, job, pending, acc>>

\* the client consumes the outcome and is ready for the next call
Return ==
    /\ ret.op # "none"
    /\ ret' = Idle
    /\ UNCHANGED <<data, job, pending, acc>>

NextReader == Resolve \/ Return

SpecReader == InitReader /\ [][NextReader]_vars

(***************************************************************************)
(* The analyzers and indicators over a price table.                        *)
(***************************************************************************)
Init ==
    /\ data \in Tables
    /\ ret = Idle
    /\ job = [active |-> FALSE]
    /\ pending = {}
    /\ acc = EmptyMap

CanCall == ret.op = "none" /\ ~job.active

LevelInputs == (-1)..MaxLevel
PeriodInputs == 0..MaxPeriods
MovingDaysInputs == 1..MaxMovingDays
ExpInputs == 0..MaxExp
FuncNames == {"last_close", "pivot_point", "port_return", "cummulative_returns",
              "resistance", "support", "daily_std", "no_such_method"}
KwargsInputs == {NoKwargs}
                \cup { [level |-> SomeInt(l), periods |-> NoneInt] : l \in {1, MaxLevel} }
                \cup { [level |-> NoneInt, periods |-> SomeInt(p)] : p \in {MaxPeriods} }

\* StockAnalyzer(ticker_df).resistance(level)
Resistance ==
    /\ CanCall
    /\ \E g \in GroupKeys(data), level \in LevelInputs :
         ret' = [op |-> "resistance", symbol |-> g, level |-> level,
                 out |-> resistance(ticker_df(data, g), level)]
    /\ UNCHANGED <<data, job, pending, acc>>

\* StockAnalyzer(ticker_df).support(level)
Support ==
    /\ CanCall
    /\ \E g \in GroupKeys(data), level \in LevelInputs :
         ret' = [op |-> "support", symbol |-> g, level |-> level,
                 out |-> support(ticker_df(data, g), level)]
    /\ UNCHANGED <<data, job, pending, acc>>

\* StockAnalyzer(ticker_df).daily_std(periods)
DailyStd ==
    /\ CanCall
    /\ \E g \in GroupKeys(data), periods \in PeriodInputs :
         ret' = [op |-> "daily_std", symbol |-> g, periods |-> periods,
                 window |-> daily_std_window(ticker_df(data, g), periods),
                 out |-> daily_std(ticker_df(data, g), periods)]
    /\ UNCHANGED <<data, job, pending, acc>>

\* StockAnalyzer(ticker_df).cummulative_returns()
CummulativeReturns ==
    /\ CanCall
    /\ \E g \in GroupKeys(data) :
         ret' = [op |-> "cummulative_returns", symbol |-> g,
                 out |-> cummulative_returns(ticker_df(data, g))]
    /\ UNCHANGED <<data, job, pending, acc>>

\* MA(records, moving_days).result
MAResult ==
    /\ CanCall
    /\ \E g \in GroupKeys(data), m \in MovingDaysInputs :
         ret' = [op |-> "MA.result", symbol |-> g, moving_days |-> m,
                 out |-> MA_result(ticker_df(data, g), m)]
    /\ UNCHANGED <<data, job, pending, acc>>

\* EMA(records, moving_days).result
EMAResult ==
    /\ CanCall
    /\ \E g \in GroupKeys(data), m \in MovingDaysInputs :
         ret' = [op |-> "EMA.result", symbol |-> g, moving_days |-> m,
                 out |-> EMA_result(ticker_df(data, g), m)]
    /\ UNCHANGED <<data, job, pending, acc>>

\* MACD(records, low, high, exp).result
MACDResult ==
    /\ CanCall
    /\ \E g \in GroupKeys(data), low \in MovingDaysInputs, high \in MovingDaysInputs,
          exp \in ExpInputs :
         ret' = [op |-> "MACD.result", symbol |-> g, low |-> low, high |-> high,
                 exp |-> exp, out |-> MACD_result(ticker_df(data, g), low, high, exp)]
    /\ UNCHANGED <<data, job, pending, acc>>

\* AssetGroupAnalyzer(data).analyze(func_name, **kwargs): the hasattr check;
\* an unknown name raises at once, otherwise the comprehension starts
AnalyzeStart ==
    /\ CanCall
    /\ \E f \in FuncNames, kw \in KwargsInputs :
         IF ~hasattr(f)
         THEN /\ ret' = [op |-> "analyze", func_name |-> f, kwargs |-> kw,
                         order |-> << >>, err |-> "ValueError", out |-> EmptyMap]
              /\ UNCHANGED <<job, pending, acc>>
         ELSE /\ job' = [active |-> TRUE, func_name |-> f, kwargs |-> kw, order |-> << >>]
              /\ pending' = DOMAIN composition_handler(data)
              /\ acc' = EmptyMap
              /\ ret' = ret
    /\ UNCHANGED data

\* one item of the comprehension: the analyzer of one group is evaluated (the
\* groups are taken in any order); a failure ends the call, the last item
\* returns the mapping
AnalyzeStep ==
    /\ job.active
    /\ \E g \in pending :
         LET r == Invoke(job.func_name, composition_handler(data)[g], job.kwargs)
             mapping == Put(acc, g, r.val)
         IN IF r.err # ""
            THEN /\ ret' = [op |-> "analyze", func_name |-> job.func_name,
                            kwargs |-> job.kwargs, order |-> Append(job.order, g),
                            err |-> r.err, out |-> EmptyMap]
                 /\ job' = [active |-> FALSE]
                 /\ pending' = {}
                 /\ acc' = EmptyMap
            ELSE IF pending = {g}
            THEN /\ ret' = [op |-> "analyze", func_name |-> job.func_name,
                            kwargs |-> job.kwargs, order |-> Append(job.order, g),
                            err |-> "", out |-> mapping]
                 /\ job' = [active |-> FALSE]
                 /\ pending' = {}
                 /\ acc' = EmptyMap
            ELSE /\ acc' = mapping
                 /\ pending' = pending \ {g}
                 /\ job' = [job EXCEPT !.order = Append(@, g)]
                 /\ UNCHANGED ret
    /\ UNCHANGED data

Next ==
    \/ Resistance
    \/ Support
    \/ DailyStd
    \/ CummulativeReturns
    \/ MAResult
    \/ EMAResult
    \/ MACDResult
    \/ AnalyzeStart
    \/ AnalyzeStep
    \/ Return

Spec == Init /\ [][Next]_vars

(***************************************************************************)
(* Properties.                                                             *)
(***************************************************************************)
IsResolve == ret.op = "_get_date_string"

\* today as DD/MM/YYYY, written out for the dates of the model
TodayText(now) ==
    CASE now = [year |-> 2020, month |-> 3, day |-> 1] -> "01/03/2020"
      [] now = [year |-> 2021, month |-> 1, day |-> 1] -> "01/01/2021"
      [] now = [year |-> 2020, month |-> 9, day |-> 15] -> "15/09/2020"

\* C1: whenever days_from_now is given as d >= 0, whatever from_date and
\* to_date are, the resolver returns (today - d days, today) as DD/MM/YYYY
\* and raises nothing.
C1_RelativeWindowWins ==
    (IsResolve /\ ret.days_from_now.given /\ ret.days_from_now.v >= 0) =>
        ret.out = Returned(SomeStr(strftime(MinusDays(ret.now, ret.days_from_now.v))),
                           SomeStr(TodayText(ret.now)))

IsAnalyze == ret.op = "analyze"

\* C2: analyze on last_close, or on any other name that exists on
\* StockAnalyzer, does not fail and returns a mapping whose keys are exactly
\* the distinct symbols of the table, each value being that symbol's own
\* result (for last_close: the Close of the symbol's last row).
C2_AnalyzeExistingName ==
    (IsAnalyze /\ hasattr(ret.func_name) /\ ret.kwargs = NoKwargs) =>
        /\ ret.err = ""
        /\ DOMAIN ret.out = GroupKeys(data)
        /\ ret.func_name = "last_close" =>
             \A g \in GroupKeys(data) :
                 ret.out[g] = R(ticker_df(data, g)[Len(ticker_df(data, g))].Close)

IsMACD == ret.op = "MACD.result"
RowCount(g) == Len(ticker_df(data, g))

\* C3 as stated: MACD.result fails exactly when the series has fewer than
\* 2 * high rows.
C3_GuardAtTwiceHigh ==
    IsMACD =>
        /\ RowCount(ret.symbol) < 2 * ret.high => ret.out.err = "ValueError"
        /\ RowCount(ret.symbol) >= 2 * ret.high => ret.out.err = ""

\* C3 amended: MACD.result fails with InsufficientData exactly when the
\* series has fewer than 2 * max(low, high) rows, and otherwise returns one
\* value per row.
C3_GuardAtTwiceLargerSpan ==
    IsMACD =>
        LET need == 2 * (IF ret.low >= ret.high THEN ret.low ELSE ret.high)
        IN /\ RowCount(ret.symbol) < need => ret.out.err = "ValueError"
           /\ RowCount(ret.symbol) >= need =>
                ret.out.err = "" /\ Len(ret.out.val) = RowCount(ret.symbol)

\* a series with at least 2 * high rows is rejected because low > high
C3_Witness ==
    /\ IsMACD
    /\ ret.low > ret.high
    /\ RowCount(ret.symbol) >= 2 * ret.high
    /\ ret.out.err = "ValueError"

IsDailyStd == ret.op = "daily_std"

\* the last k entries of a series
LastK(s, k) == SubSeq(s, Len(s) - k + 1, Len(s))

\* C4: daily_std(periods), periods >= 0, takes the standard deviation of
\* exactly the last min(periods, rowCount) entries of close_pct_change.
C4_WindowIsLastMin ==
    (IsDailyStd /\ ret.periods >= 0) =>
        LET k == IF ret.periods <= RowCount(ret.symbol) THEN ret.periods
                 ELSE RowCount(ret.symbol)
            expected == LastK(close_pct_change(ticker_df(data, ret.symbol)), k)
        IN /\ ret.window = expected
           /\ ret.out = Std(expected)

IsCumRet == ret.op = "cummulative_returns"
CloseAt(g, i) == R(ticker_df(data, g)[i].Close)

\* C5 as stated: for a 2-row series Close = [c0, c1], element 0 of the
\* cumulative returns equals c1 / c0.
C5_FirstElementIsReturn ==
    (IsCumRet /\ RowCount(ret.symbol) = 2) =>
        ret.out[1] = RDiv(CloseAt(ret.symbol, 2), CloseAt(ret.symbol, 1))

\* the product of (1 + (c[j] - c[j-1]) / c[j-1]) for j = 2..i
RECURSIVE GrowthUpTo(_, _)
GrowthUpTo(g, i) ==
    IF i < 2 THEN R(1)
    ELSE RMul(GrowthUpTo(g, i - 1),
              RAdd(R(1), RDiv(RSub(CloseAt(g, i), CloseAt(g, i - 1)), CloseAt(g, i - 1))))

\* C5 amended: the cumulative returns have one element per row; element 0
\* is undefined (NaN); every later element is the running product of
\* (1 + daily percent change), so for Close = [c0, c1] element 1 is c1 / c0.
C5_RunningProductAfterNaN ==
    IsCumRet =>
        /\ Len(ret.out) = RowCount(ret.symbol)
        /\ ret.out[1] = NaN
        /\ \A i \in 2..RowCount(ret.symbol) : ret.out[i] = GrowthUpTo(ret.symbol, i)
        /\ RowCount(ret.symbol) = 2 =>
             ret.out[2] = RDiv(CloseAt(ret.symbol, 2), CloseAt(ret.symbol, 1))

\* Close = [100, 110] gives [NaN, 1.10]
C5_Witness ==
    /\ IsCumRet
    /\ RowCount(ret.symbol) = 2
    /\ CloseAt(ret.symbol, 1) = R(100)
    /\ CloseAt(ret.symbol, 2) = R(110)
    /\ ret.out = <<NaN, [nan |-> FALSE, num |-> 11, den |-> 10]>>

\* C6: with days_from_now absent, to_date given and from_date absent the
\* resolver raises ValueError and returns no date pair.
C6_UpperBoundAloneRejected ==
    (IsResolve /\ ~ret.days_from_now.given /\ ~ret.from_date.given /\ ret.to_date.given) =>
        /\ ret.out.err = "ValueError"
        /\ ret.out.from_date = NoneStr
        /\ ret.out.to_date = NoneStr

C6_Witness ==
    /\ IsResolve
    /\ ret.days_from_now = NoneInt
    /\ ret.from_date = NoneStr
    /\ ret.to_date = SomeStr("1/9/2020")
    /\ ret.out.err = "ValueError"

IsMA == ret.op = "MA.result"

\* the sum of Close over rows 1..k of a symbol
RECURSIVE CloseSum(_, _)
CloseSum(g, k) == IF k = 0 THEN 0 ELSE CloseSum(g, k - 1) + ticker_df(data, g)[k].Close

\* C7: MA(m).result on n rows raises ValueError when n < 2m; when n >= 2m it
\* returns one value per row, the first m - 1 are NaN and the m-th is the
\* mean of Close over rows 1..m.
C7_MovingAverageGuardAndShape ==
    IsMA =>
        LET n == RowCount(ret.symbol)
            m == ret.moving_days
        IN /\ n < 2 * m => ret.out.err = "ValueError"
           /\ n >= 2 * m =>
                /\ ret.out.err = ""
                /\ Len(ret.out.val) = n
                /\ \A i \in 1..(m - 1) : ret.out.val[i] = NaN
                /\ ret.out.val[m] = Norm(CloseSum(ret.symbol, m), m)

\* a window of 2 over 4 rows with differing prices succeeds
C7_Witness ==
    /\ IsMA
    /\ ret.moving_days = 2
    /\ RowCount(ret.symbol) = 4
    /\ ret.out.err = ""
    /\ ret.out.val[1] = NaN
    /\ ret.out.val[2] = R(105)

\* C8: with days_from_now absent and from_date given, the returned from_date
\* is the supplied string; the returned to_date is the supplied to_date when
\* given and today as DD/MM/YYYY otherwise.
C8_AbsoluteBoundsPassThrough ==
    (IsResolve /\ ~ret.days_from_now.given /\ ret.from_date.given) =>
        /\ ret.out.err = ""
        /\ ret.out.from_date = ret.from_date
        /\ ret.out.to_date = IF ret.to_date.given THEN ret.to_date
                             ELSE SomeStr(TodayText(ret.now))

C8_Witness ==
    /\ IsResolve
    /\ ret.days_from_now = NoneInt
    /\ ret.from_date = SomeStr("1/9/2020")
    /\ ret.to_date = SomeStr("01/03/2020")
    /\ ret.out = Returned(SomeStr("1/9/2020"), SomeStr("01/03/2020"))

IsLevelCall == ret.op \in {"support", "resistance"}

C9_LevelOutcome ==
    IsLevelCall =>
        LET df == ticker_df(data, ret.symbol)
        IN /\ ret.level \in {1, 2, 3} => ret.out.err = "" /\ ~ret.out.val.nan
           /\ ret.level \notin {1, 2, 3} => ret.out.err = "ValueError"
           /\ support(df, ret.level).err = resistance(df, ret.level).err

\* C9: support(level) and resistance(level) return a value for level 1, 2, 3
\* and raise ValueError for every other level, both alike, and a call leaves
\* the analyzer's table as it was.
C9_LevelValidation ==
    /\ []C9_LevelOutcome
    /\ [][IsLevelCall' => data' = data]_vars

\* support(4) has raised
C9_Witness ==
    /\ ret.op = "support"
    /\ ret.level = 4
    /\ ret.out.err = "ValueError"

\* C10: whatever order the per-symbol analyzers are evaluated in, analyze
\* ends as it does when they are evaluated in groupby order: the same
\* failure, or the same mapping.
C10_OrderIndependent ==
    IsAnalyze =>
        LET inOrder == analyze(data, ret.func_name, ret.kwargs)
        IN /\ ret.err = inOrder.err
           /\ ret.err = "" => ret.out = inOrder.out

\* two symbols with different results, evaluated against groupby order
C10_Witness ==
    /\ IsAnalyze
    /\ ret.func_name = "support"
    /\ ret.err = ""
    /\ ret.order = <<"BBB", "AAA">>
    /\ ret.out["AAA"] # ret.out["BBB"]

====
